---- MODULE Spec2Model ----
(***************************************************************************)
(* Model of dashboard/dashboard.py: a Streamlit script that loads an       *)
(* order-fact table, filters it by a date range picked in the sidebar and  *)
(* renders derived tables (daily rollup, product ranking, customers by     *)
(* state, RFM) followed by a geospatial plot.  Streamlit runs the script   *)
(* top to bottom on every interaction; pc is the position in the script.   *)
(*                                                                         *)
(* Tables are sequences of records.  A timestamp is [day, tod]: a calendar *)
(* day and a time of day; tod = 0 is midnight.                             *)
(***************************************************************************)
EXTENDS Integers, Sequences, FiniteSets, TLC

(* ------------------------------- bounds -------------------------------- *)
MaxDay == 2
MaxRows == 2

TimesOfDay == {0, 1}
OrderIds == {1, 2}
CustomerIds == {1, 2}
StateNames == <<"AC", "AL", "AM", "AP", "BA", "CE", "DF", "ES", "GO", "MA">>

Days == 0..MaxDay
NaT == [day |-> -1, tod |-> 0]
Timestamps == [day : Days, tod : TimesOfDay]

(* --------------------------- generic helpers --------------------------- *)
Range(s) == {s[i] : i \in DOMAIN s}

Column(df, name) == [i \in DOMAIN df |-> df[i][name]]

RECURSIVE SumSeq(_)
SumSeq(s) == IF s = <<>> THEN 0 ELSE Head(s) + SumSeq(Tail(s))

SetMax(S) == CHOOSE x \in S : \A y \in S : y <= x
SetMin(S) == CHOOSE x \in S : \A y \in S : x <= y

IndexOf(s, x) == CHOOSE i \in DOMAIN s : s[i] = x

\* Variant of Head_n that takes one row too many.
Head_n_plus_one(s, n) == SubSeq(s, 1, IF Len(s) < n + 1 THEN Len(s) ELSE n + 1)

\* DataFrame.head(n): the first n rows.
Head_n(s, n) == SubSeq(s, 1, IF Len(s) < n THEN Len(s) ELSE n)

\* Ascending sequence of the integers of a finite set (group keys are sorted).
RECURSIVE SortedKeys(_)
SortedKeys(S) == IF S = {} THEN <<>>
                 ELSE LET m == SetMin(S) IN <<m>> \o SortedKeys(S \ {m})

(* ------------------------- timestamps and dates ------------------------ *)
\* Series.dt.date / Timestamp.date(): the calendar day of a timestamp.
DateOf(ts) == ts.day

\* pd.to_datetime(date): midnight at the start of that calendar day.
ToDatetime(d) == [day |-> d, tod |-> 0]

\* Timestamp comparison; every comparison with NaT is False.
TsLeq(a, b) == /\ a # NaT
               /\ b # NaT
               /\ \/ a.day < b.day
                  \/ a.day = b.day /\ a.tod <= b.tod

\* max() of a datetime column skips NaT and is NaT when nothing is left.
TsMax(S) == LET P == S \ {NaT}
            IN IF P = {} THEN NaT
               ELSE CHOOSE x \in P : \A y \in P : TsLeq(y, x)

TsMin(S) == LET P == S \ {NaT}
            IN IF P = {} THEN NaT
               ELSE CHOOSE x \in P : \A y \in P : TsLeq(x, y)

\* (a - b).days for timestamps a >= b: whole 24-hour periods, rounded down.
\* A NaT operand gives NaN, written -1.
TimedeltaDays(a, b) == IF a = NaT \/ b = NaT THEN -1
                       ELSE (a.day - b.day) - (IF a.tod < b.tod THEN 1 ELSE 0)

\* (a - b).days for calendar dates.
DateDiffDays(a, b) == a - b

(* ------------------------ the aggregation functions -------------------- *)
RowsOnDay(df, d) == SelectSeq(df, LAMBDA r : DateOf(r.order_approved_at) = d)

\* Variant of DailyBin that counts rows ("count") instead of distinct orders.
DailyBin_count(df, d) ==
    [order_approved_at |-> ToDatetime(d),
     order_count |-> Len(RowsOnDay(df, d)),
     revenue |-> SumSeq(Column(RowsOnDay(df, d), "price"))]

DailyBin(df, d) ==
    [order_approved_at |-> ToDatetime(d),
     order_count |-> Cardinality(Range(Column(RowsOnDay(df, d), "order_id"))),
     revenue |-> SumSeq(Column(RowsOnDay(df, d), "price"))]

\* Variant of create_daily_orders_df that groups by day (groupby) instead of
\* resampling: only the days that have rows.
create_daily_orders_df_groupby(df) ==
    LET ds == SortedKeys({DateOf(ts) : ts \in Range(Column(df, "order_approved_at"))})
    IN [i \in DOMAIN ds |->
          [order_approved_at |-> ToDatetime(ds[i]),
           order_count |-> Cardinality(Range(Column(RowsOnDay(df, ds[i]), "order_id"))),
           revenue |-> SumSeq(Column(RowsOnDay(df, ds[i]), "price"))]]

\* resample(rule='D'): one bin per calendar day from the first to the last
\* day of the frame, empty bins included (nunique 0, sum 0).
create_daily_orders_df(df) ==
    IF df = <<>> THEN <<>>
    ELSE LET ds == {DateOf(ts) : ts \in Range(Column(df, "order_approved_at"))}
             lo == SetMin(ds)
             hi == SetMax(ds)
         IN [i \in 1..(hi - lo + 1) |-> DailyBin(df, lo + i - 1)]

\* sort_values(by=col): the rows in key order, rows of equal key keeping
\* their relative order (numpy sorts arrays of at most 16 elements by
\* insertion, and pandas sorts descending by reversing around the sort).
InsertSorted(s, r, col, ascending) ==
    LET n == Cardinality({i \in DOMAIN s :
                 IF ascending THEN s[i][col] <= r[col] ELSE s[i][col] >= r[col]})
    IN SubSeq(s, 1, n) \o <<r>> \o SubSeq(s, n + 1, Len(s))

RECURSIVE SortFrom(_, _, _, _, _)
SortFrom(df, i, acc, col, ascending) ==
    IF i > Len(df) THEN acc
    ELSE SortFrom(df, i + 1, InsertSorted(acc, df[i], col, ascending), col, ascending)

sort_values(df, col, ascending) == SortFrom(df, 1, <<>>, col, ascending)

\* groupby("name_product").order_item_id.sum(): one row per label, labels
\* in sorted order.
SumItemsByProduct(df) ==
    LET names == SortedKeys(Range(Column(df, "name_product")))
    IN [i \in DOMAIN names |->
          [name_product |-> names[i],
           quantity |-> SumSeq(Column(
               SelectSeq(df, LAMBDA r : r.name_product = names[i]),
               "order_item_id"))]]

create_sum_order_items_df(df) == sort_values(SumItemsByProduct(df), "quantity", FALSE)

\* Variant of create_bystate_df that counts rows instead of distinct customers.
create_bystate_df_count(df) ==
    LET present == Range(Column(df, "customer_state"))
        keys == SelectSeq(StateNames, LAMBDA k : k \in present)
    IN [i \in DOMAIN keys |->
          [customer_state |-> keys[i],
           customer_count |-> Len(SelectSeq(df, LAMBDA r : r.customer_state = keys[i]))]]

\* groupby(by="customer_state").customer_id.nunique(): one row per state,
\* states in sorted order.
create_bystate_df(df) ==
    LET present == Range(Column(df, "customer_state"))
        keys == SelectSeq(StateNames, LAMBDA k : k \in present)
    IN [i \in DOMAIN keys |->
          [customer_state |-> keys[i],
           customer_count |-> Cardinality(Range(Column(
               SelectSeq(df, LAMBDA r : r.customer_state = keys[i]),
               "customer_id")))]]

RowsOfCustomer(df, c) == SelectSeq(df, LAMBDA r : r.customer_id = c)

\* Variant of create_rfm_df whose frequency counts rows ("count") instead of
\* distinct orders.
create_rfm_df_count(df) ==
    LET keys == SortedKeys(Range(Column(df, "customer_id")))
        recent_date == SetMax({DateOf(ts) : ts \in Range(Column(df, "order_approved_at"))})
    IN [i \in DOMAIN keys |->
          LET g == RowsOfCustomer(df, keys[i])
          IN [customer_id |-> keys[i],
              frequency |-> Len(g),
              monetary |-> SumSeq(Column(g, "payment_value")),
              recency |-> DateDiffDays(recent_date,
                              DateOf(TsMax(Range(Column(g, "order_approved_at")))))]]

\* create_rfm_df is applied to the filtered frame, which holds no NaT.
create_rfm_df(df) ==
    LET keys == SortedKeys(Range(Column(df, "customer_id")))
        recent_date == SetMax({DateOf(ts) : ts \in Range(Column(df, "order_approved_at"))})
    IN [i \in DOMAIN keys |->
          LET g == RowsOfCustomer(df, keys[i])
          IN [customer_id |-> keys[i],
              frequency |-> Cardinality(Range(Column(g, "order_id"))),
              monetary |-> SumSeq(Column(g, "payment_value")),
              recency |-> DateDiffDays(recent_date,
                              DateOf(TsMax(Range(Column(g, "order_approved_at")))))]]

\* The RFM table of the "Best Customer Based on RFM Parameters" section:
\* recency is the .days of a timestamp difference.
dashboard_rfm_df(df) ==
    LET keys == SortedKeys(Range(Column(df, "customer_id")))
        current_date == TsMax(Range(Column(df, "order_approved_at")))
    IN [i \in DOMAIN keys |->
          LET g == RowsOfCustomer(df, keys[i])
          IN [customer_id |-> keys[i],
              recency |-> TimedeltaDays(current_date,
                              TsMax(Range(Column(g, "order_approved_at")))),
              frequency |-> Cardinality(Range(Column(g, "order_id"))),
              monetary |-> SumSeq(Column(g, "payment_value"))]]

\* Variant of FilterByDate without the upper bound.
FilterByDate_no_upper(df, start, end) ==
    SelectSeq(df, LAMBDA r : TsLeq(ToDatetime(start), r.order_approved_at))

\* The rows the date filter keeps.
FilterByDate(df, start, end) ==
    SelectSeq(df, LAMBDA r : /\ TsLeq(ToDatetime(start), r.order_approved_at)
                             /\ TsLeq(r.order_approved_at, ToDatetime(end)))

(* --------------------------- late deliveries --------------------------- *)
TopCities == 10

\* Variant of late_counts that leaves out the delivery_status == 'Late' filter.
late_counts_unfiltered(df) ==
    LET keys == SortedKeys(Range(Column(df, "seller_city")))
    IN [i \in DOMAIN keys |->
          [seller_city |-> keys[i],
           count |-> Len(SelectSeq(df, LAMBDA r : r.seller_city = keys[i]))]]

\* satisfaction_df[delivery_status == 'Late'].groupby('seller_city')
\* ['delivery_status'].count(): one row per city that has a Late row.
late_counts(df) ==
    LET late == SelectSeq(df, LAMBDA r : r.delivery_status = "Late")
        keys == SortedKeys(Range(Column(late, "seller_city")))
    IN [i \in DOMAIN keys |->
          [seller_city |-> keys[i],
           count |-> Len(SelectSeq(late, LAMBDA r : r.seller_city = keys[i]))]]

\* .sort_values(ascending=...).head(10)
late_ranking(df, ascending) ==
    Head_n(sort_values(late_counts(df), "count", ascending), TopCities)

(* ------------------------------ geography ------------------------------ *)
PaletteSize == 8
GeoColumns == {"geolocation_lat", "geolocation_lng", "customer_state"}

\* pd.factorize: every value gets the index of its first occurrence among
\* the distinct values seen so far.
RECURSIVE FactorizeFrom(_, _, _, _)
FactorizeFrom(col, i, uniques, codes) ==
    IF i > Len(col) THEN codes
    ELSE IF col[i] \in Range(uniques)
         THEN FactorizeFrom(col, i + 1, uniques,
                            Append(codes, IndexOf(uniques, col[i]) - 1))
         ELSE FactorizeFrom(col, i + 1, Append(uniques, col[i]),
                            Append(codes, Len(uniques)))

\* Variant of factorize that numbers the distinct values in sorted order
\* (factorize(sort=True)) instead of first-seen order.
factorize_sorted(col) ==
    LET keys == SelectSeq(StateNames, LAMBDA k : k \in Range(col))
    IN [i \in DOMAIN col |-> IndexOf(keys, col[i]) - 1]

factorize(col) == FactorizeFrom(col, 1, <<>>, <<>>)

\* Variant of color_group that takes the codes modulo one less than the
\* palette size.
color_group_short_palette(rows) ==
    LET codes == factorize(Column(rows, "customer_state"))
    IN [i \in DOMAIN rows |->
          [geolocation_lat |-> rows[i].geolocation_lat,
           geolocation_lng |-> rows[i].geolocation_lng,
           customer_state |-> rows[i].customer_state,
           color_group |-> codes[i] % (PaletteSize - 1)]]

\* geo_df['color_group'] = pd.factorize(geo_df['customer_state'])[0] % len(colors)
color_group(rows) ==
    LET codes == factorize(Column(rows, "customer_state"))
    IN [i \in DOMAIN rows |->
          [geolocation_lat |-> rows[i].geolocation_lat,
           geolocation_lng |-> rows[i].geolocation_lng,
           customer_state |-> rows[i].customer_state,
           color_group |-> codes[i] % PaletteSize]]

\* The plotting loop: one overlay per non-empty colour group, labelled with
\* the state of the group's first row.
RECURSIVE PlotFrom(_, _)
PlotFrom(gdf, i) ==
    IF i >= PaletteSize THEN <<>>
    ELSE LET subset == SelectSeq(gdf, LAMBDA r : r.color_group = i)
         IN (IF subset = <<>> THEN <<>>
             ELSE <<[color_group |-> i,
                     label |-> subset[1].customer_state,
                     states |-> Range(Column(subset, "customer_state"))]>>)
            \o PlotFrom(gdf, i + 1)

plot_overlays(gdf) == PlotFrom(gdf, 0)

\* Variant of brazil_lookup that warns as soon as the bundled dataset fails.
brazil_lookup_warns_early(local_ok, net_ok) ==
    IF local_ok
    THEN [brazil |-> "naturalearth_lowres", tried |-> <<"naturalearth_lowres">>,
          warned |-> FALSE, raised |-> FALSE]
    ELSE IF net_ok
         THEN [brazil |-> "geo-countries",
               tried |-> <<"naturalearth_lowres", "geo-countries">>,
               warned |-> TRUE, raised |-> FALSE]
         ELSE [brazil |-> "box",
               tried |-> <<"naturalearth_lowres", "geo-countries", "box">>,
               warned |-> TRUE, raised |-> FALSE]

\* The Brazil outline: the bundled dataset, else the downloaded one, else a
\* bounding box with a warning.  local_ok / net_ok say whether the provider's
\* try block runs to its end.
brazil_lookup(local_ok, net_ok) ==
    IF local_ok
    THEN [brazil |-> "naturalearth_lowres", tried |-> <<"naturalearth_lowres">>,
          warned |-> FALSE, raised |-> FALSE]
    ELSE IF net_ok
         THEN [brazil |-> "geo-countries",
               tried |-> <<"naturalearth_lowres", "geo-countries">>,
               warned |-> FALSE, raised |-> FALSE]
         ELSE [brazil |-> "box",
               tried |-> <<"naturalearth_lowres", "geo-countries", "box">>,
               warned |-> TRUE, raised |-> FALSE]

(* -------------------------------- inputs ------------------------------- *)
NumProducts == 10
MaxExtra == 1
TopN == 5
ItemIds == {1, 2}

DefaultRow ==
    [order_id |-> 1, order_item_id |-> 1, customer_id |-> 1,
     customer_state |-> StateNames[1], order_approved_at |-> ToDatetime(0),
     price |-> 10, payment_value |-> 10, name_product |-> 1]

\* Rows that differ in order, customer and approval time (absent included).
TimeRows ==
    {[DefaultRow EXCEPT !.order_id = o, !.customer_id = c, !.order_approved_at = t] :
        o \in OrderIds, c \in CustomerIds, t \in Timestamps \cup {NaT}}

\* Rows that differ in customer, state and approval day.
StateRows ==
    {[DefaultRow EXCEPT !.customer_id = c, !.customer_state = st,
                        !.order_approved_at = ToDatetime(d)] :
        c \in CustomerIds, st \in {StateNames[1], StateNames[2]}, d \in Days}

\* read_csv + sort_values(by="order_approved_at"): the frame is held in
\* approval order, absent timestamps last.
RowKey(r) ==
    LET t == r.order_approved_at
        tr == IF t = NaT THEN 2 * (MaxDay + 1) ELSE 2 * t.day + t.tod
    IN ((tr * 10 + r.order_id) * 10 + r.customer_id) * 100
       + IndexOf(StateNames, r.customer_state)

Datasets(rows) ==
    UNION {{df \in [1..n -> rows] :
               /\ \A i \in 1..(n - 1) : RowKey(df[i]) <= RowKey(df[i + 1])
               /\ \E i \in 1..n : df[i].order_approved_at # NaT} : n \in 1..MaxRows}

\* One line per product label, plus a second line for the first label.
ProductDatasets ==
    UNION {{[i \in 1..n |-> [DefaultRow EXCEPT
                                !.name_product = ((i - 1) % NumProducts) + 1,
                                !.order_item_id = q[i]]] :
               q \in [1..n -> ItemIds]} : n \in 1..(NumProducts + 1)}

NumCities == 12

SatRow(city, status) == [seller_city |-> city, delivery_status |-> status]

DefaultSatisfaction == <<SatRow(1, "Late"), SatRow(2, "On Time")>>

\* Cities 1..n with one Late row each, except that city t (if any) is
\* On Time and city e (if any) has a second, Late row.
SatisfactionTables ==
    UNION {{[i \in 1..(n + (IF e = 0 THEN 0 ELSE 1)) |->
                IF i > n THEN SatRow(e, "Late")
                ELSE SatRow(i, IF i = t THEN "On Time" ELSE "Late")] :
              e \in 0..n, t \in 0..n} : n \in 0..NumCities}

GeoRow(st) == [geolocation_lat |-> 0, geolocation_lng |-> 0, customer_state |-> st]

GeoTables ==
    {[i \in 1..(Len(pre) + k) |->
         IF i <= Len(pre) THEN GeoRow(pre[i]) ELSE GeoRow(StateNames[i - Len(pre)])] :
        pre \in UNION {[1..n -> Range(StateNames)] : n \in 0..MaxExtra},
        k \in 0..Len(StateNames)}

DefaultGeoFile ==
    [columns |-> GeoColumns, rows |-> <<GeoRow(StateNames[1]), GeoRow(StateNames[2])>>]

GeoFiles ==
    {[columns |-> GeoColumns, rows |-> t] : t \in GeoTables}
    \cup {[columns |-> GeoColumns \ {c}, rows |-> DefaultGeoFile.rows] : c \in GeoColumns}

(* -------------------------------- state -------------------------------- *)
VARIABLES all_df, geo_file, pc, start_date, end_date, main_df,
          daily_orders_df, sum_order_items_df, bystate_df, rfm_df,
          total_orders, best_products, worst_products,
          geo_df, provider_ok, brazil, tried, overlays, warnings, rendered, outcome,
          satisfaction_df, top_10_late, bottom_10_late

vars == <<all_df, geo_file, pc, start_date, end_date, main_df,
          daily_orders_df, sum_order_items_df, bystate_df, rfm_df,
          total_orders, best_products, worst_products,
          geo_df, provider_ok, brazil, tried, overlays, warnings, rendered, outcome,
          satisfaction_df, top_10_late, bottom_10_late>>

inputs == <<all_df, geo_file, satisfaction_df>>

late_lists == <<top_10_late, bottom_10_late>>

\* A fresh run of the script: nothing computed yet.
Fresh ==
    /\ pc = "sidebar"
    /\ start_date = -1
    /\ end_date = -1
    /\ main_df = <<>>
    /\ daily_orders_df = <<>>
    /\ sum_order_items_df = <<>>
    /\ bystate_df = <<>>
    /\ rfm_df = <<>>
    /\ total_orders = 0
    /\ best_products = <<>>
    /\ worst_products = <<>>
    /\ top_10_late = <<>>
    /\ bottom_10_late = <<>>
    /\ geo_df = <<>>
    /\ provider_ok = [local |-> FALSE, net |-> FALSE]
    /\ brazil = "none"
    /\ tried = <<>>
    /\ overlays = <<>>
    /\ warnings = {}
    /\ rendered = {}
    /\ outcome = "running"

Init ==
    /\ \/ /\ all_df \in Datasets(TimeRows) \cup Datasets(StateRows) \cup ProductDatasets
          /\ geo_file = DefaultGeoFile
          /\ satisfaction_df = DefaultSatisfaction
       \/ /\ all_df = <<DefaultRow>>
          /\ geo_file \in GeoFiles
          /\ satisfaction_df = DefaultSatisfaction
       \/ /\ all_df = <<DefaultRow>>
          /\ geo_file = DefaultGeoFile
          /\ satisfaction_df \in SatisfactionTables
    /\ Fresh

min_date == TsMin(Range(Column(all_df, "order_approved_at")))
max_date == TsMax(Range(Column(all_df, "order_approved_at")))

(* ------------------------------- actions ------------------------------- *)
\* st.date_input: the user picks a range inside [min_date, max_date].
DateInput(start, end) ==
    /\ pc = "sidebar"
    /\ start \in DateOf(min_date)..DateOf(max_date)
    /\ end \in start..DateOf(max_date)
    /\ start_date' = start
    /\ end_date' = end
    /\ pc' = "filter"
    /\ UNCHANGED <<inputs, late_lists, main_df, daily_orders_df, sum_order_items_df, bystate_df,
                   rfm_df, total_orders, best_products, worst_products, geo_df,
                   provider_ok, brazil, tried, overlays, warnings, rendered, outcome>>

FilterData ==
    /\ pc = "filter"
    /\ main_df' = FilterByDate(all_df, start_date, end_date)
    /\ pc' = "create"
    /\ UNCHANGED <<inputs, late_lists, start_date, end_date, daily_orders_df, sum_order_items_df,
                   bystate_df, rfm_df, total_orders, best_products, worst_products,
                   geo_df, provider_ok, brazil, tried, overlays, warnings, rendered,
                   outcome>>

CreateDataframes ==
    /\ pc = "create"
    /\ daily_orders_df' = create_daily_orders_df(main_df)
    /\ sum_order_items_df' = create_sum_order_items_df(main_df)
    /\ bystate_df' = create_bystate_df(main_df)
    /\ rfm_df' = create_rfm_df(main_df)
    /\ pc' = "daily"
    /\ UNCHANGED <<inputs, late_lists, start_date, end_date, main_df, total_orders, best_products,
                   worst_products, geo_df, provider_ok, brazil, tried, overlays,
                   warnings, rendered, outcome>>

DailyOrdersSection ==
    /\ pc = "daily"
    /\ total_orders' = SumSeq(Column(daily_orders_df, "order_count"))
    /\ rendered' = rendered \cup {"daily"}
    /\ pc' = "products"
    /\ UNCHANGED <<inputs, late_lists, start_date, end_date, main_df, daily_orders_df,
                   sum_order_items_df, bystate_df, rfm_df, best_products,
                   worst_products, geo_df, provider_ok, brazil, tried, overlays,
                   warnings, outcome>>

ProductSection ==
    /\ pc = "products"
    /\ best_products' = Head_n(sum_order_items_df, TopN)
    /\ worst_products' = Head_n(sort_values(sum_order_items_df, "quantity", TRUE), TopN)
    /\ rendered' = rendered \cup {"products"}
    /\ pc' = "late"
    /\ UNCHANGED <<inputs, late_lists, start_date, end_date, main_df, daily_orders_df,
                   sum_order_items_df, bystate_df, rfm_df, total_orders, geo_df,
                   provider_ok, brazil, tried, overlays, warnings, outcome>>

LateDeliveriesSection ==
    /\ pc = "late"
    /\ top_10_late' = late_ranking(satisfaction_df, FALSE)
    /\ bottom_10_late' = late_ranking(satisfaction_df, TRUE)
    /\ rendered' = rendered \cup {"late"}
    /\ pc' = "rfm"
    /\ UNCHANGED <<inputs, start_date, end_date, main_df, daily_orders_df,
                   sum_order_items_df, bystate_df, rfm_df, total_orders, best_products,
                   worst_products, geo_df, provider_ok, brazil, tried, overlays,
                   warnings, outcome>>

RfmSection ==
    /\ pc = "rfm"
    /\ rfm_df' = dashboard_rfm_df(all_df)
    /\ rendered' = rendered \cup {"rfm"}
    /\ pc' = "geo"
    /\ UNCHANGED <<inputs, late_lists, start_date, end_date, main_df, daily_orders_df,
                   sum_order_items_df, bystate_df, total_orders, best_products,
                   worst_products, geo_df, provider_ok, brazil, tried, overlays,
                   warnings, outcome>>

\* read_csv, then the points are built from the longitude and latitude
\* columns; a missing one is a KeyError: warning and st.stop().
GeoLoad ==
    /\ pc = "geo"
    /\ geo_df' = geo_file.rows
    /\ IF {"geolocation_lng", "geolocation_lat"} \subseteq geo_file.columns
       THEN /\ pc' = "brazil"
            /\ UNCHANGED <<warnings, outcome>>
       ELSE /\ warnings' = warnings \cup {"latlng"}
            /\ outcome' = "stopped"
            /\ pc' = "done"
    /\ UNCHANGED <<inputs, late_lists, start_date, end_date, main_df, daily_orders_df,
                   sum_order_items_df, bystate_df, rfm_df, total_orders, best_products,
                   worst_products, provider_ok, brazil, tried, overlays, rendered>>

BrazilLookup(local_ok, net_ok) ==
    /\ pc = "brazil"
    /\ LET r == brazil_lookup(local_ok, net_ok)
       IN /\ brazil' = r.brazil
          /\ tried' = r.tried
          /\ warnings' = IF r.warned THEN warnings \cup {"brazil"} ELSE warnings
          /\ IF r.raised
             THEN outcome' = "exception" /\ pc' = "done"
             ELSE outcome' = outcome /\ pc' = "color"
    /\ provider_ok' = [local |-> local_ok, net |-> net_ok]
    /\ UNCHANGED <<inputs, late_lists, start_date, end_date, main_df, daily_orders_df,
                   sum_order_items_df, bystate_df, rfm_df, total_orders, best_products,
                   worst_products, geo_df, overlays, rendered>>

\* Colour groups, the overlays and the rest of the plot; reading a missing
\* customer_state column is a KeyError nothing catches.
ColorGroups ==
    /\ pc = "color"
    /\ IF "customer_state" \in geo_file.columns
       THEN /\ geo_df' = color_group(geo_df)
            /\ overlays' = plot_overlays(color_group(geo_df))
            /\ rendered' = rendered \cup {"geo"}
            /\ outcome' = "finished"
       ELSE /\ outcome' = "exception"
            /\ UNCHANGED <<geo_df, overlays, rendered>>
    /\ pc' = "done"
    /\ UNCHANGED <<inputs, late_lists, start_date, end_date, main_df, daily_orders_df,
                   sum_order_items_df, bystate_df, rfm_df, total_orders, best_products,
                   worst_products, provider_ok, brazil, tried, warnings>>

\* Any interaction runs the script again from the top, on the same files.
Rerun ==
    /\ pc = "done"
    /\ pc' = "sidebar"
    /\ start_date' = -1
    /\ end_date' = -1
    /\ main_df' = <<>>
    /\ daily_orders_df' = <<>>
    /\ sum_order_items_df' = <<>>
    /\ bystate_df' = <<>>
    /\ rfm_df' = <<>>
    /\ total_orders' = 0
    /\ best_products' = <<>>
    /\ worst_products' = <<>>
    /\ top_10_late' = <<>>
    /\ bottom_10_late' = <<>>
    /\ geo_df' = <<>>
    /\ provider_ok' = [local |-> FALSE, net |-> FALSE]
    /\ brazil' = "none"
    /\ tried' = <<>>
    /\ overlays' = <<>>
    /\ warnings' = {}
    /\ rendered' = {}
    /\ outcome' = "running"
    /\ UNCHANGED inputs

Next ==
    \/ \E start, end \in Days : DateInput(start, end)
    \/ FilterData
    \/ CreateDataframes
    \/ DailyOrdersSection
    \/ ProductSection
    \/ LateDeliveriesSection
    \/ RfmSection
    \/ GeoLoad
    \/ \E local_ok, net_ok \in BOOLEAN : BrazilLookup(local_ok, net_ok)
    \/ ColorGroups
    \/ Rerun

Spec == Init /\ [][Next]_vars

(* ------------------------- positions in the script --------------------- *)
AfterFilter == {"create", "daily", "products", "late", "rfm", "geo", "brazil", "color",
                "done"}
AfterCreate == AfterFilter \ {"create"}
AfterDaily == AfterCreate \ {"daily"}
AfterProducts == AfterDaily \ {"products"}
AfterLate == AfterProducts \ {"late"}
AfterRfm == AfterLate \ {"rfm"}

ApprovalDays(df) == {DateOf(ts) : ts \in Range(Column(df, "order_approved_at")) \ {NaT}}
OrdersOf(df) == Range(Column(df, "order_id"))
CustomersOf(df) == Range(Column(df, "customer_id"))

(* -------------------------------- claims ------------------------------- *)

\* The rows whose approval date lies in [start_date, end_date].
RowsInRange ==
    SelectSeq(all_df, LAMBDA r : /\ r.order_approved_at # NaT
                                 /\ start_date <= DateOf(r.order_approved_at)
                                 /\ DateOf(r.order_approved_at) <= end_date)

\* C1: the filtered table holds exactly the rows whose approval timestamp,
\* truncated to its calendar date, lies in [start, end]; a row approved at
\* any time of day on the end date is kept, a row without a timestamp is not.
C1_FilterKeepsWholeEndDay ==
    pc \in AfterFilter =>
        main_df = RowsInRange

\* Every order's filtered rows were approved on one calendar day.
OneDayPerOrder(df) ==
    \A i, j \in DOMAIN df :
        df[i].order_id = df[j].order_id =>
            DateOf(df[i].order_approved_at) = DateOf(df[j].order_approved_at)

\* C2 as stated: "Total Orders" is the number of distinct order_id values of
\* the filtered table, whatever the table.
C2_TotalOrdersIsDistinctOrders ==
    pc \in AfterDaily => total_orders = Cardinality(OrdersOf(main_df))

\* C2 amended: "Total Orders" is the number of distinct (approval day,
\* order_id) pairs of the filtered table; it is the number of distinct
\* order_id values when no order has rows approved on different days.
C2_TotalOrdersIsDistinctOrdersPerDay ==
    pc \in AfterDaily =>
        /\ total_orders =
              Cardinality({<<DateOf(main_df[i].order_approved_at), main_df[i].order_id>> :
                              i \in DOMAIN main_df})
        /\ OneDayPerOrder(main_df) => total_orders = Cardinality(OrdersOf(main_df))

\* An order of two lines approved on one day is counted once.
C2_Witness ==
    /\ pc \in AfterDaily
    /\ OneDayPerOrder(main_df)
    /\ Cardinality(OrdersOf(main_df)) < Len(main_df)
    /\ total_orders = Cardinality(OrdersOf(main_df))

RollupDays(rollup) == {DateOf(rollup[i].order_approved_at) : i \in DOMAIN rollup}

\* C3 as stated: the rollup has a row for a day exactly when a filtered row
\* was approved on that day; a day without orders between two days with
\* orders is left out.
C3_ZeroOrderDaysOmitted ==
    pc \in AfterCreate => RollupDays(daily_orders_df) = ApprovalDays(main_df)

\* C3 amended: the rollup has one row for every calendar day from the first
\* to the last day on which a filtered row was approved; a day in between
\* without orders has a row with order_count 0 and revenue 0.
C3_ZeroOrderDaysFilled ==
    pc \in AfterCreate =>
        LET days == ApprovalDays(main_df)
        IN /\ days = {} => daily_orders_df = <<>>
           /\ days # {} =>
                /\ Len(daily_orders_df) = SetMax(days) - SetMin(days) + 1
                /\ \A i \in DOMAIN daily_orders_df :
                     LET row == daily_orders_df[i]
                         d == DateOf(row.order_approved_at)
                     IN /\ d = SetMin(days) + i - 1
                        /\ d \notin days => row.order_count = 0 /\ row.revenue = 0
                        /\ d \in days => row.order_count >= 1

\* A day without orders lies between two days with orders.
C3_Witness ==
    /\ pc \in AfterCreate
    /\ \E i \in DOMAIN daily_orders_df :
          /\ 1 < i
          /\ i < Len(daily_orders_df)
          /\ daily_orders_df[i].order_count = 0

\* C4: every row of the rollup has start <= day <= end, and the rows are in
\* strictly ascending order of day.
C4_RollupInsideRange ==
    pc \in AfterCreate =>
        /\ \A i \in DOMAIN daily_orders_df :
              /\ start_date <= DateOf(daily_orders_df[i].order_approved_at)
              /\ DateOf(daily_orders_df[i].order_approved_at) <= end_date
        /\ \A i, j \in DOMAIN daily_orders_df :
              i < j => DateOf(daily_orders_df[i].order_approved_at)
                         < DateOf(daily_orders_df[j].order_approved_at)

\* A rollup from a range that ends before the last approved row.
C4_Witness ==
    /\ pc \in AfterCreate
    /\ daily_orders_df # <<>>
    /\ \E i \in DOMAIN all_df :
          /\ all_df[i].order_approved_at # NaT
          /\ DateOf(all_df[i].order_approved_at) > end_date

\* The calendar-day recency of customer c in frame df: the days from c's
\* latest approval date to the latest approval date of the frame.
LatestDay(df) == SetMax(ApprovalDays(df))
CalendarRecency(df, c) == LatestDay(df) - LatestDay(RowsOfCustomer(df, c))

RecencyIsCalendarDays(table, df) ==
    \A i \in DOMAIN table :
        LET row == table[i]
        IN ApprovalDays(RowsOfCustomer(df, row.customer_id)) # {} =>
           /\ row.recency >= 0
           /\ row.recency = CalendarRecency(df, row.customer_id)
           /\ row.recency = 0 <=>
                LatestDay(RowsOfCustomer(df, row.customer_id)) = LatestDay(df)

\* C5: recency is a non-negative whole number, the calendar days between the
\* reference date and the customer's latest approval date, and 0 exactly for
\* the customers whose latest date is the reference date; for the table of
\* create_rfm_df and for the table the dashboard shows (stated for the
\* customers that have an approval timestamp).
C5_RecencyIsCalendarDays ==
    /\ pc \in {"daily", "products", "late", "rfm"} => RecencyIsCalendarDays(rfm_df, main_df)
    /\ pc \in AfterRfm => RecencyIsCalendarDays(rfm_df, all_df)

\* C6: the RFM table that is presented is computed from the filtered table:
\* it lists the customers of the filtered rows, with their frequency and
\* monetary value over the filtered rows (stated for the runs in which the
\* filter kept every row of the chosen dates).
C6_RfmFromFilteredTable ==
    (pc \in AfterRfm /\ main_df = RowsInRange) =>
        /\ Range(Column(rfm_df, "customer_id")) = CustomersOf(main_df)
        /\ \A i \in DOMAIN rfm_df :
              LET g == RowsOfCustomer(main_df, rfm_df[i].customer_id)
              IN /\ rfm_df[i].frequency = Cardinality(OrdersOf(g))
                 /\ rfm_df[i].monetary = SumSeq(Column(g, "payment_value"))

ProductNames(table) == Range(Column(table, "name_product"))

\* C7 as stated: with at least 10 product labels in the filtered table, the
\* 5 best and the 5 worst products share no product, ties included.
C7_BestWorstDisjoint ==
    (pc \in AfterProducts /\ Len(sum_order_items_df) >= 2 * TopN) =>
        ProductNames(best_products) \cap ProductNames(worst_products) = {}

\* C7 amended: with at least 10 product labels, the 5 best and the 5 worst
\* share no product when the fifth best quantity is larger than the fifth
\* worst quantity.
C7_BestWorstDisjointWhenSeparated ==
    (/\ pc \in AfterProducts
     /\ Len(sum_order_items_df) >= 2 * TopN
     /\ best_products[TopN].quantity > worst_products[TopN].quantity) =>
        ProductNames(best_products) \cap ProductNames(worst_products) = {}

\* Ten labels, ties among the best and among the worst, none across.
C7_Witness ==
    /\ pc \in AfterProducts
    /\ Len(sum_order_items_df) >= 2 * TopN
    /\ best_products[TopN].quantity > worst_products[TopN].quantity
    /\ best_products[1].quantity = best_products[TopN].quantity
    /\ worst_products[1].quantity = worst_products[TopN].quantity

\* Every customer's filtered rows name one state.
OneStatePerCustomer(df) ==
    \A i, j \in DOMAIN df :
        df[i].customer_id = df[j].customer_id =>
            df[i].customer_state = df[j].customer_state

\* C8 as stated: for every filtered table the customer counts of the states
\* sum to the number of distinct customers of the table.
C8_StateCountsSumToCustomers ==
    pc \in AfterCreate =>
        SumSeq(Column(bystate_df, "customer_count")) = Cardinality(CustomersOf(main_df))

\* C8 amended: the counts sum to the number of distinct customers when every
\* customer's filtered rows name one state; in general they sum to the
\* number of distinct (state, customer) pairs.
C8_StateCountsSumToCustomersPerState ==
    pc \in AfterCreate =>
        /\ SumSeq(Column(bystate_df, "customer_count")) =
              Cardinality({<<main_df[i].customer_state, main_df[i].customer_id>> :
                              i \in DOMAIN main_df})
        /\ OneStatePerCustomer(main_df) =>
              SumSeq(Column(bystate_df, "customer_count"))
                  = Cardinality(CustomersOf(main_df))

\* A customer with two rows in her one state is counted once.
C8_Witness ==
    /\ pc \in AfterCreate
    /\ OneStatePerCustomer(main_df)
    /\ Cardinality(CustomersOf(main_df)) < Len(main_df)
    /\ SumSeq(Column(bystate_df, "customer_count")) = Cardinality(CustomersOf(main_df))

\* The number of distinct states in the rows before the first row of state st.
FirstSeenIndex(col, st) ==
    LET first == SetMin({i \in DOMAIN col : col[i] = st})
    IN Cardinality({col[j] : j \in 1..(first - 1)})

\* C9: every row's color_group is the first-seen index of its state modulo
\* the palette size, and rows of one state have one color_group.
C9_ColorGroupIsFirstSeenIndex ==
    outcome = "finished" =>
        LET col == Column(geo_df, "customer_state")
        IN /\ Len(geo_df) = Len(geo_file.rows)
           /\ \A i \in DOMAIN geo_df :
                 /\ geo_df[i].customer_state = geo_file.rows[i].customer_state
                 /\ geo_df[i].color_group = FirstSeenIndex(col, col[i]) % PaletteSize
           /\ \A i, j \in DOMAIN geo_df :
                 col[i] = col[j] => geo_df[i].color_group = geo_df[j].color_group

\* More states than colours, one of them on two rows, first seen out of
\* alphabetical order.
C9_Witness ==
    /\ outcome = "finished"
    /\ Cardinality(Range(Column(geo_df, "customer_state"))) > PaletteSize
    /\ \E i, j \in DOMAIN geo_df :
          i # j /\ geo_df[i].customer_state = geo_df[j].customer_state
    /\ geo_df[1].customer_state # StateNames[1]

Providers == <<"naturalearth_lowres", "geo-countries", "box">>

ProviderSucceeds(p) ==
    CASE p = "naturalearth_lowres" -> provider_ok.local
      [] p = "geo-countries" -> provider_ok.net
      [] OTHER -> TRUE

\* C10: the providers are tried in the order bundled, downloaded, box; one
\* is tried only when all before it failed; the first to succeed is used;
\* the box is used when the other two fail; no failure leaves the lookup;
\* the warning is shown only when the box is reached.
C10_BrazilLookupFallsBack ==
    /\ pc = "color" => tried # <<>> /\ outcome = "running"
    /\ tried # <<>> =>
          /\ Len(tried) <= Len(Providers)
          /\ \A i \in DOMAIN tried : tried[i] = Providers[i]
          /\ \A i \in 1..(Len(tried) - 1) : ~ProviderSucceeds(tried[i])
          /\ ProviderSucceeds(tried[Len(tried)])
          /\ brazil = tried[Len(tried)]
          /\ (~provider_ok.local /\ ~provider_ok.net) => brazil = "box"
          /\ "brazil" \in warnings <=> brazil = "box"

\* Both providers failed and the box was used, with its warning.
C10_Witness ==
    /\ pc = "color"
    /\ ~provider_ok.local
    /\ ~provider_ok.net
    /\ brazil = "box"
    /\ "brazil" \in warnings

\* The sections of the dashboard ahead of the geospatial one.
OtherSections == {"daily", "products", "late", "rfm"}

\* C11: when the geo table lacks geolocation_lat, geolocation_lng or
\* customer_state, the run ends with a warning shown, the geospatial section
\* alone not rendered, every other section rendered and no exception raised.
C11_MissingGeoColumnOnlyWarns ==
    (pc = "done" /\ geo_file.columns # GeoColumns) =>
        /\ "latlng" \in warnings
        /\ outcome = "stopped"
        /\ "geo" \notin rendered
        /\ OtherSections \subseteq rendered

\* The table has one row per customer of df, with the customer's number of
\* distinct orders and the payment_value of every one of the customer's rows.
RfmRowsMatch(table, df) ==
    /\ Len(table) = Cardinality(CustomersOf(df))
    /\ Range(Column(table, "customer_id")) = CustomersOf(df)
    /\ \A i \in DOMAIN table :
          LET c == table[i].customer_id
          IN /\ table[i].frequency =
                   Cardinality({df[j].order_id : j \in {k \in DOMAIN df : df[k].customer_id = c}})
             /\ table[i].monetary =
                   SumSeq([j \in DOMAIN df |->
                              IF df[j].customer_id = c THEN df[j].payment_value ELSE 0])

\* C12: the RFM table has exactly one row per distinct customer_id of its
\* input; frequency is the customer's number of distinct order_id values and
\* monetary the sum of payment_value over all the customer's rows, once per
\* line; for create_rfm_df (input main_df) and for the dashboard's table
\* (input all_df).
C12_RfmOneRowPerCustomer ==
    /\ pc \in {"daily", "products", "late", "rfm"} => RfmRowsMatch(rfm_df, main_df)
    /\ pc \in AfterRfm => RfmRowsMatch(rfm_df, all_df)

\* An order of two lines: frequency 1, its payment_value summed twice.
C12_Witness ==
    /\ pc \in AfterRfm
    /\ \E i \in DOMAIN rfm_df :
          /\ rfm_df[i].frequency = 1
          /\ Len(RowsOfCustomer(all_df, rfm_df[i].customer_id)) = 2
          /\ rfm_df[i].monetary = 2 * all_df[1].payment_value

GroupsOf(gdf) == Range(Column(gdf, "color_group"))
StatesOf(gdf) == Range(Column(gdf, "customer_state"))

\* C14: one overlay is drawn per non-empty color_group, labelled with the
\* customer_state of the group's first row; when the geo table has at most
\* 8 (palette size) distinct states, every row of an overlay has the state of
\* the overlay's label and no two states share an overlay.
C14_OverlayPerColorGroup ==
    outcome = "finished" =>
        /\ Len(overlays) = Cardinality(GroupsOf(geo_df))
        /\ Range(Column(overlays, "color_group")) = GroupsOf(geo_df)
        /\ \A k \in DOMAIN overlays :
              LET g == overlays[k].color_group
                  first == SetMin({i \in DOMAIN geo_df : geo_df[i].color_group = g})
              IN /\ overlays[k].label = geo_df[first].customer_state
                 /\ overlays[k].states =
                       {geo_df[i].customer_state :
                           i \in {j \in DOMAIN geo_df : geo_df[j].color_group = g}}
        /\ Cardinality(StatesOf(geo_df)) <= PaletteSize =>
              /\ \A k \in DOMAIN overlays : overlays[k].states = {overlays[k].label}
              /\ Len(overlays) = Cardinality(StatesOf(geo_df))

\* As many states as colours, one of them on two rows: one overlay each.
C14_Witness ==
    /\ outcome = "finished"
    /\ Cardinality(StatesOf(geo_df)) = PaletteSize
    /\ Len(geo_df) > PaletteSize
    /\ Len(overlays) = PaletteSize

\* The number of Late rows of a city, and the cities that have one.
LateRowsOf(city) ==
    Cardinality({i \in DOMAIN satisfaction_df :
                    /\ satisfaction_df[i].seller_city = city
                    /\ satisfaction_df[i].delivery_status = "Late"})
LateCities == {c \in Range(Column(satisfaction_df, "seller_city")) : LateRowsOf(c) > 0}

Min2(a, b) == IF a < b THEN a ELSE b

\* A list of min(10, number of late cities) distinct late cities with their
\* counts.
IsLateList(list) ==
    /\ Len(list) = Min2(TopCities, Cardinality(LateCities))
    /\ Range(Column(list, "seller_city")) \subseteq LateCities
    /\ \A i, j \in DOMAIN list : i # j => list[i].seller_city # list[j].seller_city
    /\ \A i \in DOMAIN list : list[i].count = LateRowsOf(list[i].seller_city)

\* C13: the 'most late' list holds min(10, number of cities with a Late row)
\* cities in non-increasing order of Late-row count, no unlisted city has more
\* than the smallest listed count; the 'fewest late' list mirrors it in
\* non-decreasing order; a city without a Late row is in neither list.
C13_LateRankings ==
    pc \in AfterLate =>
        /\ IsLateList(top_10_late)
        /\ \A i, j \in DOMAIN top_10_late :
              i < j => top_10_late[i].count >= top_10_late[j].count
        /\ \A c \in LateCities \ Range(Column(top_10_late, "seller_city")) :
              LateRowsOf(c) <= top_10_late[Len(top_10_late)].count
        /\ IsLateList(bottom_10_late)
        /\ \A i, j \in DOMAIN bottom_10_late :
              i < j => bottom_10_late[i].count <= bottom_10_late[j].count
        /\ \A c \in LateCities \ Range(Column(bottom_10_late, "seller_city")) :
              LateRowsOf(c) >= bottom_10_late[Len(bottom_10_late)].count

\* More than 10 late cities with unequal counts, and a city that is never
\* late.
C13_Witness ==
    /\ pc \in AfterLate
    /\ Cardinality(LateCities) > TopCities
    /\ top_10_late[1].count > top_10_late[TopCities].count
    /\ \E c \in Range(Column(satisfaction_df, "seller_city")) : LateRowsOf(c) = 0
    /\ top_10_late[1].seller_city \notin Range(Column(bottom_10_late, "seller_city"))

====
